---- MODULE Spec2Model ----
(***************************************************************************)
(* Model of xmrig_gui_v0.1.py: the XMRigGUI form (live input registry),    *)
(* the settings store (save_settings / load_settings over                  *)
(* xmrig_parameters.json) and the process controller (run_xmrig /          *)
(* stop_xmrig over one subprocess handle).                                  *)
(*                                                                         *)
(* Text is a sequence of characters over the alphabet Chars, where "x"     *)
(* stands for any non-whitespace character and " " for whitespace.         *)
(* A Python value is a tagged pair: <<"str", chars>> or <<"int", n>>.      *)
(***************************************************************************)
EXTENDS Integers, Sequences, FiniteSets, TLC

\* ---------------------------------------------------------------- bounds
MaxLen == 2      \* longest text a user types into an Entry
MaxProcs == 2    \* number of terminal processes that are ever spawned

\* ---------------------------------------------------------------- values
Chars == {" ", "x"}

Texts == UNION {[1..n -> Chars] : n \in 0..MaxLen}

StrV(s) == <<"str", s>>

IntV(n) == <<"int", n>>

IsStr(v) == v[1] = "str"

\* Python truthiness of a str or an int
Truthy(v) == IF IsStr(v) THEN v[2] # <<>> ELSE v[2] # 0

\* int(value) of an int read back from the JSON document
ToInt(v) == IntV(v[2])

RECURSIVE LStrip(_)
LStrip(s) == IF s # <<>> /\ Head(s) = " " THEN LStrip(Tail(s)) ELSE s

RECURSIVE RStrip(_)
RStrip(s) == IF s # <<>> /\ s[Len(s)] = " " THEN RStrip(SubSeq(s, 1, Len(s) - 1)) ELSE s

\* str.strip()
Strip(s) == RStrip(LStrip(s))

\* ---------------------------------------------------------------- catalog
\* network_options(): one text option with a default, one checkbox, one
\* dropdown, in table order.
network_options ==
    << [key |-> "url",       kind |-> "text",     default |-> <<"x">>, choices |-> <<>>],
       [key |-> "keepalive", kind |-> "checkbox", default |-> <<>>,    choices |-> <<>>],
       [key |-> "algo",      kind |-> "dropdown", default |-> <<>>,    choices |-> << <<"x">>, <<"x", "x">> >>] >>

\* keys of the merged registry {**network_entries, ...}
Keys == {network_options[i].key : i \in DOMAIN network_options}

Option(k) == CHOOSE o \in {network_options[i] : i \in DOMAIN network_options} : o.key = k

\* isinstance(widget, tk.Entry) / tk.IntVar / ttk.Combobox
Kind(k) == Option(k).kind

\* add_options: the value each widget shows after construction
InitialValue(o) ==
    IF o.kind = "checkbox" THEN IntV(0)
    ELSE IF o.kind = "dropdown" THEN StrV(o.choices[1])
    ELSE StrV(o.default)

\* ---------------------------------------------------------------- documents
EmptyDoc == [k \in {} |-> IntV(0)]

\* d[k] = v
Put(d, k, v) == [x \in (DOMAIN d) \cup {k} |-> IF x = k THEN v ELSE d[x]]

\* d.get(k, dflt)
Get(d, k, dflt) == IF k \in DOMAIN d THEN d[k] ELSE dflt

\* json.dump of one value / json.load of one value
JsonEncode(v) == IF IsStr(v) THEN <<"string", v[2]>> ELSE <<"number", v[2]>>

JsonDecode(j) == IF j[1] = "string" THEN StrV(j[2]) ELSE IntV(j[2])

\* json.dump(self.settings, f): the entries in the dict's insertion order,
\* which for a captured document is the order of the registry
RECURSIVE DumpFrom(_, _)
DumpFrom(d, i) ==
    IF i > Len(network_options) THEN <<>>
    ELSE LET k == network_options[i].key IN
         (IF k \in DOMAIN d THEN << <<k, JsonEncode(d[k])>> >> ELSE <<>>) \o DumpFrom(d, i + 1)

JsonDump(d) == DumpFrom(d, 1)

\* json.load(f)
RECURSIVE JsonLoad(_)
JsonLoad(entries) ==
    IF entries = <<>> THEN EmptyDoc
    ELSE LET n == Len(entries) IN
         Put(JsonLoad(SubSeq(entries, 1, n - 1)), entries[n][1], JsonDecode(entries[n][2]))

NoFile == [exists |-> FALSE, content |-> <<>>]

FileOf(entries) == [exists |-> TRUE, content |-> entries]

\* xmrig_parameters.json as an earlier session may have left it: written
\* by this version, or by a version whose catalog had other options
\* (a removed "config" option, no keepalive/algo yet).
ExistingFiles ==
    { << <<"url", <<"string", <<"x">>>>>>, <<"keepalive", <<"number", 1>>>>,
         <<"algo", <<"string", <<"x", "x">>>>>>, <<"config", <<"string", <<"x">>>>>> >>,
      << <<"url", <<"string", <<"x">>>>>> >>,
      << <<"config", <<"string", <<"x">>>>>> >>,
      << <<"keepalive", <<"number", 1>>>>, <<"algo", <<"string", <<"x", "x">>>>>> >> }

\* ---------------------------------------------------------------- state
VARIABLES
    inputs,            \* live input registry: key -> displayed value
    settings,          \* self.settings
    file,              \* xmrig_parameters.json
    process,           \* self.process: NoProcess or the pid of the Popen handle
    spawned,           \* number of processes spawned so far (pids 1..spawned)
    alive,             \* pids whose process has not exited (poll() is None)
    termRequested,     \* pids on which terminate() has been called
    terminalInstalled, \* mate-terminal is found on the PATH
    command,           \* run_xmrig's local `command`, <<>> outside run_xmrig
    notice,            \* the messagebox the last handler showed
    lastOp,            \* the handler that ran last
    saved              \* the input values read by the last save_settings

vars == <<inputs, settings, file, process, spawned, alive, termRequested,
          terminalInstalled, command, notice, lastOp, saved>>

storeVars == <<settings, file, saved>>

procVars == <<process, spawned, alive, termRequested, terminalInstalled>>

NoProcess == 0

NoCommand == <<>>

InitInputs == [k \in Keys |-> InitialValue(Option(k))]

NotSaved == [valid |-> FALSE, at |-> InitInputs]

Init ==
    /\ inputs = InitInputs
    /\ settings = EmptyDoc
    /\ file \in {NoFile} \cup {FileOf(e) : e \in ExistingFiles}
    /\ process = NoProcess
    /\ spawned = 0
    /\ alive = {}
    /\ termRequested = {}
    /\ terminalInstalled \in BOOLEAN
    /\ command = NoCommand
    /\ notice = "none"
    /\ lastOp = "init"
    /\ saved = NotSaved

\* ---------------------------------------------------------------- user edits
\* what the user can put into the widget bound to k
Editable(k) ==
    IF Kind(k) = "checkbox" THEN {IntV(0), IntV(1)}
    ELSE IF Kind(k) = "dropdown"
         THEN {StrV(Option(k).choices[i]) : i \in DOMAIN Option(k).choices}
    ELSE {StrV(s) : s \in Texts}

Edit ==
    \E k \in Keys : \E v \in Editable(k) :
        /\ v # inputs[k]
        /\ inputs' = [inputs EXCEPT ![k] = v]
        /\ command' = NoCommand
        /\ notice' = "none"
        /\ lastOp' = "edit"
        /\ UNCHANGED <<storeVars, procVars>>

\* ---------------------------------------------------------------- settings store
\* SaveLoop storing the stripped text instead of the text as typed
RECURSIVE SaveLoopStripped(_, _, _)
SaveLoopStripped(inp, doc, i) ==
    IF i > Len(network_options) THEN doc
    ELSE LET key == network_options[i].key
             value == inp[key]
         IN IF IsStr(value) /\ Strip(value[2]) = <<>>
            THEN SaveLoopStripped(inp, doc, i + 1)
            ELSE SaveLoopStripped(inp,
                     Put(doc, key, IF IsStr(value) THEN StrV(Strip(value[2])) ELSE value), i + 1)

\* save_settings, lines 86-94: the loop over the merged registry from the
\* i-th widget on, doc being self.settings so far
RECURSIVE SaveLoop(_, _, _)
SaveLoop(inp, doc, i) ==
    IF i > Len(network_options) THEN doc
    ELSE LET key == network_options[i].key
             value == inp[key]
         IN IF IsStr(value) /\ Strip(value[2]) = <<>>
            THEN SaveLoop(inp, doc, i + 1)
            ELSE SaveLoop(inp, Put(doc, key, value), i + 1)

\* save_settings without the reset of self.settings
save_settings_no_reset ==
    /\ settings' = SaveLoop(inputs, settings, 1)
    /\ file' = FileOf(JsonDump(settings'))
    /\ saved' = [valid |-> TRUE, at |-> inputs]
    /\ command' = NoCommand
    /\ notice' = "none"
    /\ lastOp' = "save"
    /\ UNCHANGED <<inputs, procVars>>

save_settings ==
    /\ settings' = SaveLoop(inputs, EmptyDoc, 1)
    /\ file' = FileOf(JsonDump(settings'))
    /\ saved' = [valid |-> TRUE, at |-> inputs]
    /\ command' = NoCommand
    /\ notice' = "none"
    /\ lastOp' = "save"
    /\ UNCHANGED <<inputs, procVars>>

\* ApplyValue with the Combobox set to the looked-up value unconditionally
ApplyValueNoFallback(doc, key, current) ==
    LET value == Get(doc, key, StrV(<<>>)) IN
    IF Kind(key) = "text" THEN value
    ELSE IF Kind(key) = "checkbox" THEN (IF Truthy(value) THEN ToInt(value) ELSE IntV(0))
    ELSE value

\* update_ui_with_settings, lines 73-81: what the widget bound to key shows
\* afterwards, doc being self.settings and current what it shows now
ApplyValue(doc, key, current) ==
    LET value == Get(doc, key, StrV(<<>>)) IN
    IF Kind(key) = "text" THEN value
    ELSE IF Kind(key) = "checkbox" THEN (IF Truthy(value) THEN ToInt(value) ELSE IntV(0))
    ELSE (IF Truthy(value) THEN value ELSE current)

update_ui_with_settings(doc, inp) == [key \in Keys |-> ApplyValue(doc, key, inp[key])]

\* load_settings with self.settings cleared before the file is opened
load_settings_clear_first ==
    /\ IF file.exists
       THEN /\ settings' = JsonLoad(file.content)
            /\ inputs' = update_ui_with_settings(settings', inputs)
            /\ notice' = "none"
       ELSE /\ notice' = "MissingSettingsFile"
            /\ settings' = EmptyDoc
            /\ UNCHANGED inputs
    /\ command' = NoCommand
    /\ lastOp' = "load"
    /\ UNCHANGED <<file, saved, procVars>>

load_settings ==
    /\ IF file.exists
       THEN /\ settings' = JsonLoad(file.content)
            /\ inputs' = update_ui_with_settings(settings', inputs)
            /\ notice' = "none"
       ELSE /\ notice' = "MissingSettingsFile"
            /\ UNCHANGED <<settings, inputs>>
    /\ command' = NoCommand
    /\ lastOp' = "load"
    /\ UNCHANGED <<file, saved, procVars>>

\* the user (or anything else) deletes xmrig_parameters.json
RemoveFile ==
    /\ file.exists
    /\ file' = NoFile
    /\ saved' = NotSaved
    /\ command' = NoCommand
    /\ notice' = "none"
    /\ lastOp' = "env"
    /\ UNCHANGED <<inputs, settings, procVars>>

\* ---------------------------------------------------------------- process controller
\* Poll with the liveness test inverted
PollInverted(p) == IF p \in alive THEN "exited" ELSE "None"

\* Popen.poll(): "None" while the process has not exited
Poll(p) == IF p \in alive THEN "None" ELSE "exited"

\* the text an f-string puts in place of {value}
Format(v) == IF IsStr(v) THEN v[2] ELSE IF v[2] = 1 THEN <<"1">> ELSE <<"0">>

\* ArgsFor with values tested after strip(): a whitespace-only text adds nothing
ArgsForStripped(key, value) ==
    IF Kind(key) = "checkbox" /\ Truthy(value) THEN << <<"--", key>> >>
    ELSE IF IsStr(value) /\ Strip(value[2]) # <<>> THEN << <<"--", key, "=">> \o Format(value) >>
    ELSE <<>>

\* ArgsFor without the IntVar branch: a checked box is written as a value
ArgsForNoIntVar(key, value) ==
    IF Truthy(value) THEN << <<"--", key, "=">> \o Format(value) >>
    ELSE <<>>

\* run_xmrig, lines 118-123: the tokens one widget adds to command
ArgsFor(key, value) ==
    IF Kind(key) = "checkbox" /\ Truthy(value) THEN << <<"--", key>> >>
    ELSE IF Truthy(value) THEN << <<"--", key, "=">> \o Format(value) >>
    ELSE <<>>

RECURSIVE BuildFrom(_, _, _)
BuildFrom(inp, cmd, i) ==
    IF i > Len(network_options) THEN cmd
    ELSE LET key == network_options[i].key IN
         BuildFrom(inp, cmd \o ArgsFor(key, inp[key]), i + 1)

\* run_xmrig, lines 114-123
BuildArgs(inp) == BuildFrom(inp, << <<"./xmrig">> >>, 1)

run_xmrig ==
    /\ IF process # NoProcess /\ Poll(process) = "None"
       THEN /\ notice' = "AlreadyRunning"
            /\ command' = NoCommand
            /\ UNCHANGED <<process, spawned, alive>>
       ELSE /\ command' = BuildArgs(inputs)
            /\ IF terminalInstalled
               THEN /\ spawned < MaxProcs
                    /\ spawned' = spawned + 1
                    /\ process' = spawned + 1
                    /\ alive' = alive \cup {spawned + 1}
                    /\ notice' = "none"
               ELSE /\ notice' = "MissingTerminal"
                    /\ UNCHANGED <<process, spawned, alive>>
    /\ lastOp' = "run"
    /\ UNCHANGED <<inputs, storeVars, termRequested, terminalInstalled>>

\* stop_xmrig with the success notice shown on both branches
stop_xmrig_always_stopped ==
    /\ IF process # NoProcess
       THEN /\ termRequested' = termRequested \cup {process}
            /\ process' = NoProcess
       ELSE UNCHANGED <<process, termRequested>>
    /\ notice' = "Stopped"
    /\ command' = NoCommand
    /\ lastOp' = "stop"
    /\ UNCHANGED <<inputs, storeVars, spawned, alive, terminalInstalled>>

stop_xmrig ==
    /\ IF process # NoProcess
       THEN /\ termRequested' = termRequested \cup {process}
            /\ process' = NoProcess
            /\ notice' = "Stopped"
       ELSE /\ notice' = "NotRunning"
            /\ UNCHANGED <<process, termRequested>>
    /\ command' = NoCommand
    /\ lastOp' = "stop"
    /\ UNCHANGED <<inputs, storeVars, spawned, alive, terminalInstalled>>

\* a spawned terminal exits: on its own, or some time after terminate()
ProcessExit ==
    \E p \in alive :
        /\ alive' = alive \ {p}
        /\ command' = NoCommand
        /\ notice' = "none"
        /\ lastOp' = "env"
        /\ UNCHANGED <<inputs, storeVars, process, spawned, termRequested, terminalInstalled>>

\* mate-terminal is uninstalled / installed while the program runs
TerminalRemoved ==
    /\ terminalInstalled
    /\ terminalInstalled' = FALSE
    /\ command' = NoCommand
    /\ notice' = "none"
    /\ lastOp' = "env"
    /\ UNCHANGED <<inputs, storeVars, process, spawned, alive, termRequested>>

TerminalInstalled ==
    /\ ~terminalInstalled
    /\ terminalInstalled' = TRUE
    /\ command' = NoCommand
    /\ notice' = "none"
    /\ lastOp' = "env"
    /\ UNCHANGED <<inputs, storeVars, process, spawned, alive, termRequested>>

\* ---------------------------------------------------------------- specifications
NextStore == Edit \/ save_settings \/ load_settings \/ RemoveFile

NextProc == Edit \/ run_xmrig \/ stop_xmrig \/ ProcessExit \/ TerminalRemoved \/ TerminalInstalled

Next == NextStore \/ NextProc

\* the settings store alone: Save, Load and edits of the form
SpecStore == Init /\ [][NextStore]_vars

\* the process controller alone: Run, Stop and edits of the form
SpecProc == Init /\ [][NextProc]_vars

Spec == Init /\ [][Next]_vars

\* ---------------------------------------------------------------- properties
\* run_xmrig got past the already-running check and built `command`
RunBuiltArgs == lastOp = "run" /\ notice # "AlreadyRunning"

\* load_settings read the file and updated the form
LoadSucceeded == lastOp = "load" /\ notice = "none"

TextKeys == {k \in Keys : Kind(k) # "checkbox"}

CheckboxKeys == {k \in Keys : Kind(k) = "checkbox"}

\* number of tokens of cmd equal to t
Count(cmd, t) == Cardinality({i \in DOMAIN cmd : cmd[i] = t})

\* t is a token written for option k: --k or --k=...
IsFor(t, k) == Len(t) >= 2 /\ t[1] = "--" /\ t[2] = k

\* C1: a run() while the handle is set and its process is alive shows the
\* AlreadyRunning notice, spawns nothing and keeps the handle, however many
\* times it is repeated.
C1_RunWhileAliveRefused ==
    [][(lastOp' = "run" /\ process # NoProcess /\ process \in alive)
        => ( /\ notice' = "AlreadyRunning"
             /\ process' = process
             /\ spawned' = spawned
             /\ alive' = alive )]_vars

C1_Witness == lastOp = "run" /\ notice = "AlreadyRunning" /\ process \in alive

\* C2: a stop() while no handle is set shows the NotRunning notice, calls
\* terminate() on nothing and leaves handle, settings document, file and
\* inputs as they were.
C2_StopWithoutHandle ==
    [][(lastOp' = "stop" /\ process = NoProcess)
        => ( /\ notice' = "NotRunning"
             /\ termRequested' = termRequested
             /\ process' = NoProcess
             /\ settings' = settings
             /\ file' = file
             /\ inputs' = inputs )]_vars

C2_Witness ==
    /\ lastOp = "stop" /\ notice = "NotRunning" /\ process = NoProcess
    /\ termRequested # {}

\* C3: load_settings with no settings file reports MissingSettingsFile and
\* leaves self.settings and every input as they were.
C3_LoadMissingFile ==
    [][(lastOp' = "load" /\ ~file.exists)
        => ( /\ notice' = "MissingSettingsFile"
             /\ settings' = settings
             /\ inputs' = inputs )]_vars

C3_Witness ==
    /\ lastOp = "load" /\ notice = "MissingSettingsFile"
    /\ settings # EmptyDoc /\ inputs # InitInputs

C5_CaptureKeys ==
    lastOp = "save"
        => /\ DOMAIN settings =
                CheckboxKeys \cup {k \in TextKeys : Strip(inputs[k][2]) # <<>>}
           /\ \A k \in DOMAIN settings : settings[k] = inputs[k]
           /\ \A k \in CheckboxKeys : settings[k] \in {IntV(0), IntV(1)}
           /\ file.exists /\ JsonLoad(file.content) = settings

C5_Witness ==
    /\ lastOp = "save"
    /\ inputs["url"][2] # <<>> /\ Strip(inputs["url"][2]) = <<>>
    /\ "url" \notin DOMAIN settings
    /\ inputs["keepalive"] = IntV(0) /\ "keepalive" \in DOMAIN settings

\* C6 as stated: a successful load leaves untouched every input, of any
\* kind, whose key is absent from the loaded document.
C6_AbsentKeysUntouched ==
    [][(lastOp' = "load" /\ notice' = "none")
        => \A k \in Keys \ DOMAIN settings' : inputs'[k] = inputs[k]]_vars

\* C6 amended: a successful load leaves untouched every dropdown input
\* whose key is absent from the loaded document; a text input whose key is
\* absent is cleared to the empty text and a checkbox whose key is absent
\* is reset to unchecked.
C6_AbsentKeysByKind ==
    [][(lastOp' = "load" /\ notice' = "none")
        => \A k \in Keys \ DOMAIN settings' :
              IF Kind(k) = "dropdown" THEN inputs'[k] = inputs[k]
              ELSE IF Kind(k) = "checkbox" THEN inputs'[k] = IntV(0)
              ELSE inputs'[k] = StrV(<<>>)]_vars

C6_Witness ==
    /\ LoadSucceeded
    /\ Keys \cap DOMAIN settings = {}
    /\ inputs["algo"] # InitInputs["algo"]

\* C7 as stated: the argument list holds exactly one token {key}={value}
\* for each text or dropdown input with a non-empty value, and no token for
\* the key when the value is empty.
C7_ValueTokenBare ==
    RunBuiltArgs
        => \A k \in TextKeys :
              IF inputs[k][2] # <<>>
              THEN Count(command, <<k, "=">> \o inputs[k][2]) = 1
              ELSE \A i \in DOMAIN command : ~IsFor(command[i], k) /\ command[i][1] # k

\* C7 amended: the argument list holds exactly one token for each text or
\* dropdown input with a non-empty value, and that token is
\* --{key}={value}; it holds no token for the key when the value is empty.
C7_ValueTokenDashed ==
    RunBuiltArgs
        => \A k \in TextKeys :
              IF inputs[k][2] # <<>>
              THEN /\ Count(command, <<"--", k, "=">> \o inputs[k][2]) = 1
                   /\ Cardinality({i \in DOMAIN command : IsFor(command[i], k)}) = 1
              ELSE \A i \in DOMAIN command : ~IsFor(command[i], k)

C7_Witness ==
    /\ RunBuiltArgs
    /\ inputs["url"][2] # <<>> /\ Strip(inputs["url"][2]) = <<>>
    /\ Len(command) = 3

\* C8: the argument list holds the token --{key} exactly once for each
\* checked checkbox and no token for the key of an unchecked checkbox.
C8_CheckboxToken ==
    RunBuiltArgs
        => \A k \in CheckboxKeys :
              IF inputs[k] = IntV(1)
              THEN /\ Count(command, <<"--", k>>) = 1
                   /\ Cardinality({i \in DOMAIN command : IsFor(command[i], k)}) = 1
              ELSE \A i \in DOMAIN command : ~IsFor(command[i], k)

C8_Witness ==
    /\ RunBuiltArgs
    /\ inputs["keepalive"] = IntV(1)
    /\ Len(command) = 4

\* C9: after a run() that fails because the terminal program is missing, no
\* process handle is set.
C9_NoHandleAfterMissingTerminal ==
    (lastOp = "run" /\ notice = "MissingTerminal") => process = NoProcess

\* C10: at most one process spawned by the controller is alive at any time.
C10_AtMostOneAlive == Cardinality(alive) <= 1

====
